---- MODULE Spec2Model ----
(***************************************************************************)
(* Model of yt/frontends/flash/data_structures.py: the construction of a   *)
(* FLASHHierarchy from a FLASH checkpoint file (count grids, parse the     *)
(* per-grid arrays, populate the parent/child links), with the parameter   *)
(* lookup of FLASHStaticOutput._find_parameter.                            *)
(***************************************************************************)
EXTENDS Integers, Sequences, FiniteSets, TLC

\* ---------------------------------------------------------------- bounds
MaxN == 2
MaxLevel == 2
MaxLinks == 2
NumChildSlots == 2
MaxCount == 2
MaxBlock == 2

\* ------------------------------------------------------ program constants
offset == 7
id_offset == 1

ParamNames == <<"nxb", "nyb", "nzb">>

\* grid_dimensions as the base hierarchy preallocates it: ones.
UnitDimension == 1

VARIABLES
    file,                \* the checkpoint container's content (never written)
    pc,                  \* how far FLASHHierarchy.__init__ has come
    handle,              \* self._handle: "none", "open" or "closed"
    error,               \* the exception that left __init__, "none" without
    num_grids,           \* self.num_grids
    grid_dimensions,     \* self.grid_dimensions, one <<nx, ny, nz>> per grid
    grid_particle_count, \* self.grid_particle_count
    particle_indices,    \* self._particle_indices
    grid_levels,         \* self.grid_levels
    Level,               \* g.Level of every grid object, by id
    Children,            \* g.Children of every grid object: a list of ids
    Parent,              \* g.Parent of every grid object: an id, 0 for None
    visit,               \* the order ii in which the grids were visited
    max_level            \* self.max_level, -1 while unset

vars == <<file, pc, handle, error, num_grids, grid_dimensions, grid_particle_count,
          particle_indices, grid_levels, Level, Children, Parent, visit,
          max_level>>

\* ------------------------------------------------------------ the file
\* The number of rows of /refine level, /localnp and /gid.
NGrids(f) == Len(f.refine_level)

\* The rows of a parameter table: a (name, value) row for every name of
\* `names` that `val` gives a value other than 0.
RECURSIVE ScalarRows(_, _)
ScalarRows(names, val) ==
    IF names = << >> THEN << >>
    ELSE LET rest == ScalarRows(Tail(names), val)
         IN  IF val[Head(names)] # 0
             THEN <<[name |-> Head(names), value |-> val[Head(names)]]>> \o rest
             ELSE rest

\* A /gid table of n rows: the first `offset` columns are the face neighbours
\* and the bookkeeping slot, the child columns hold -1 except at `links`.
GidTable(n, links) ==
    [g \in 1..n |->
        [c \in 1..(offset + NumChildSlots) |->
            IF c = 1 THEN (g % n) + 1
            ELSE IF c <= offset THEN -1
            ELSE IF <<g, c - offset>> \in DOMAIN links
                 THEN links[<<g, c - offset>>]
                 ELSE -1]]

\* What a child slot may hold besides the sentinel -1.
SlotValues(n) == {-2, 0} \cup (1..(n + 1))

\* How many child slots of each row are filled, from the first one on (the
\* rest of a row is padded with -1): at most MaxLinks slots in the table.
RECURSIVE SumTo(_, _)
SumTo(counts, k) == IF k = 0 THEN 0 ELSE counts[k] + SumTo(counts, k - 1)

Fillings(n) ==
    {lens \in [1..n -> 0..NumChildSlots] : SumTo(lens, n) <= MaxLinks}

FilledSlots(n, lens) == {p \in (1..n) \X (1..NumChildSlots) : p[2] <= lens[p[1]]}

\* The "/simulation parameters" summary row of older files: total blocks
\* first, then the block sizes, which differ from every value of the
\* scalars table so that the source of a value shows.
SummaryRow(n, present) ==
    [present |-> present,
     nblocks |-> n,
     block   |-> [k \in 1..Len(ParamNames) |-> MaxBlock + k]]

Container(levels, counts, gidt, scalars, summary, names) ==
    [refine_level |-> levels,
     localnp      |-> counts,
     gid          |-> gidt,
     tables       |-> [t \in {<<"integer", TRUE>>} |-> scalars],
     sim_params   |-> summary,
     has_names    |-> names]

AllScalars(n) ==
    <<[name |-> "globalnumblocks", value |-> n]>>
        \o ScalarRows(ParamNames, [p \in {"nxb", "nyb", "nzb"} |-> 1])

\* A file of n grids with this adjacency table and these raw levels.
RelFile(n, levels, links) ==
    Container(levels, [g \in 1..n |-> 0], GidTable(n, links), AllScalars(n),
              SummaryRow(n, FALSE), TRUE)

\* A file of n grids with these particle counts and parameter tables.
ParseFile(n, counts, gnb, val, summary, names) ==
    Container([g \in 1..n |-> IF g <= MaxLevel THEN g ELSE MaxLevel], counts,
              GidTable(n, << >>),
              (IF gnb THEN <<[name |-> "globalnumblocks", value |-> n]>>
                      ELSE << >>) \o ScalarRows(ParamNames, val),
              SummaryRow(n, summary), names)

\* ------------------------------------------------- FLASHStaticOutput
\* _find_parameter: the value of the first row of the table named by
\* (ptype, scalar) whose name is pname; KeyError (found = FALSE) without one.
RECURSIVE FirstMatch(_, _)
FirstMatch(rows, pname) ==
    IF rows = << >> THEN [found |-> FALSE, value |-> 0]
    ELSE IF Head(rows).name = pname
         THEN [found |-> TRUE, value |-> Head(rows).value]
         ELSE FirstMatch(Tail(rows), pname)

find_parameter(f, ptype, pname, scalar) ==
    FirstMatch(f.tables[<<ptype, scalar>>], pname)

\* ---------------------------------------------------- FLASHHierarchy
\* _count_grids: globalnumblocks of the "integer scalars" table, on KeyError
\* the first entry of "/simulation parameters".
CountOf(f) ==
    LET p == find_parameter(f, "integer", "globalnumblocks", TRUE)
    IN  IF p.found THEN [ok |-> TRUE, n |-> p.value]
        ELSE IF f.sim_params.present
             THEN [ok |-> TRUE, n |-> f.sim_params.nblocks]
             ELSE [ok |-> FALSE, n |-> 0]

\* The per-parameter fallback: each block size from its own lookup when
\* that succeeds, from the summary row otherwise.
BlockSizesEach(f) ==
    LET look == [k \in 1..Len(ParamNames) |->
                    find_parameter(f, "integer", ParamNames[k], TRUE)]
    IN  IF \A k \in 1..Len(ParamNames) : look[k].found \/ f.sim_params.present
        THEN [ok |-> TRUE,
              nb |-> [k \in 1..Len(ParamNames) |->
                         IF look[k].found THEN look[k].value
                         ELSE f.sim_params.block[k]]]
        ELSE [ok |-> FALSE, nb |-> [k \in 1..Len(ParamNames) |-> 0]]

\* _parse_hierarchy, lines 109-115: one try block around the three lookups;
\* a KeyError of any of them takes all three from "/simulation parameters".
BlockSizes(f) ==
    LET look == [k \in 1..Len(ParamNames) |->
                    find_parameter(f, "integer", ParamNames[k], TRUE)]
    IN  IF \A k \in 1..Len(ParamNames) : look[k].found
        THEN [ok |-> TRUE, nb |-> [k \in 1..Len(ParamNames) |-> look[k].value]]
        ELSE IF f.sim_params.present
             THEN [ok |-> TRUE, nb |-> f.sim_params.block]
             ELSE [ok |-> FALSE, nb |-> [k \in 1..Len(ParamNames) |-> 0]]

\* The running sums written from index 0 on: the leading zero is lost.
AccumulateShifted(counts) ==
    [i \in 1..(Len(counts) + 1) |->
        IF i > Len(counts) THEN 0 ELSE SumTo(counts, i)]

\* _parse_hierarchy, lines 118-119: zeros(num_grids + 1), then the running
\* sums of the particle counts written from index 1 on.
Accumulate(counts) ==
    [i \in 1..(Len(counts) + 1) |->
        IF i = 1 THEN 0 ELSE SumTo(counts, i - 1)]

\* The raw level kept as it is.
RawLevel(raw) == raw

\* _parse_hierarchy, line 123: FLASH levels are 1-based, yt's are 0-based.
NormalizeLevel(raw) == raw - 1

\* na.argsort(self.grid_levels.flat), line 132: an index order that sorts
\* the levels. The default kind is numpy's quicksort, which is not stable:
\* the order of grids of equal level is any the build may produce.
ArgsortOrders(levels) ==
    LET n == Len(levels)
    IN  {p \in [1..n -> 1..n] :
            /\ \A i, j \in 1..n : i # j => p[i] # p[j]
            /\ \A i \in 1..(n - 1) : levels[p[i]] <= levels[p[i + 1]]}

\* gid[gi, 7:], line 137: the child columns of a row.
ChildSlots(row) == SubSeq(row, offset + 1, Len(row))

\* The filter of line 137: "if i > -1".
IsChildId(i) == i > -1

\* An array index that never raises.
IndexAlwaysOK(idx, n) == TRUE

\* self.grids[idx] on an array of n grids: Python raises IndexError outside
\* -n .. n-1 ...
IndexOK(idx, n) == idx >= -n /\ idx < n

\* ... and counts a negative index from the end. The grid at position k
\* (0-based) has id k + _id_offset.
GridAt(idx, n) == (IF idx < 0 THEN idx + n ELSE idx) + id_offset

\* The ids of the list comprehension of line 137, for the row of grid g.
ChildIds(f, g) == SelectSeq(ChildSlots(f.gid[g - id_offset + 1]), IsChildId)

\* The assignment the wrong way round: g.Parent = g1.
SetParentsSwapped(par, g, kids) ==
    IF kids = << >> THEN par ELSE [par EXCEPT ![g] = kids[Len(kids)]]

\* Lines 138-139: g1.Parent = g for every g1 of g.Children.
SetParents(par, g, kids) ==
    [c \in DOMAIN par |->
        IF \E j \in 1..Len(kids) : kids[j] = c THEN g ELSE par[c]]

\* The loop of lines 134-141 from position k of the order on. An IndexError
\* of the list comprehension leaves the loop before g.Children is assigned.
\* g._prepare_grid() and g._setup_dx() copy the grid's own row of the
\* hierarchy arrays and touch neither Parent nor Children.
RECURSIVE PopulateLoop(_, _, _, _)
PopulateLoop(f, order, k, st) ==
    IF k > Len(order) THEN st
    ELSE LET g    == order[k]
             n    == Len(order)
             ids  == ChildIds(f, g)
         IN  IF \E j \in 1..Len(ids) : ~IndexOK(ids[j] - 1, n)
             THEN [st EXCEPT !.ok = FALSE]
             ELSE LET kids == [j \in 1..Len(ids) |-> GridAt(ids[j] - 1, n)]
                  IN  PopulateLoop(f, order, k + 1,
                          [Children |-> [st.Children EXCEPT ![g] = kids],
                           Parent   |-> SetParents(st.Parent, g, kids),
                           seen     |-> Append(st.seen, g),
                           ok       |-> TRUE])

RECURSIVE MaxOf(_, _)
MaxOf(levels, k) ==
    IF k = 1 THEN levels[1]
    ELSE LET m == MaxOf(levels, k - 1)
         IN  IF levels[k] > m THEN levels[k] ELSE m

\* The hooks of the base hierarchy's constructor in the order it calls
\* them: count the grids, parse, populate, detect the fields; then
\* FLASHHierarchy.__init__ closes the container.
NextPhase(p) ==
    CASE p = "new"      -> "count"
      [] p = "count"    -> "parse"
      [] p = "parse"    -> "populate"
      [] p = "populate" -> "detect"
      [] p = "detect"   -> "close"
      [] p = "close"    -> "done"

\* ------------------------------------------------------------ actions
Unbuilt ==
    /\ pc = "new"
    /\ handle = "none"
    /\ error = "none"
    /\ num_grids = 0
    /\ grid_dimensions = << >>
    /\ grid_particle_count = << >>
    /\ particle_indices = << >>
    /\ grid_levels = << >>
    /\ Level = << >>
    /\ Children = << >>
    /\ Parent = << >>
    /\ visit = << >>
    /\ max_level = -1

\* The adjacency table and the refinement levels vary.
Init ==
    /\ \E n \in 1..MaxN :
         \E levels \in [1..n -> 1..MaxLevel] :
           \E lens \in Fillings(n) :
             \E links \in [FilledSlots(n, lens) -> SlotValues(n)] :
               file = RelFile(n, levels, links)
    /\ Unbuilt

\* The particle counts and the parameter tables vary.
InitParse ==
    /\ \E n \in 1..MaxN :
         \E counts \in [1..n -> 0..MaxCount] :
           \E val \in [{"nxb", "nyb", "nzb"} -> 0..MaxBlock] :
             \E gnb \in BOOLEAN, summary \in BOOLEAN, names \in BOOLEAN :
               file = ParseFile(n, counts, gnb, val, summary, names)
    /\ Unbuilt

\* FLASHHierarchy.__init__, line 73: the container is opened.
Open ==
    /\ pc = "new"
    /\ handle' = "open"
    /\ pc' = NextPhase(pc)
    /\ UNCHANGED <<file, error, num_grids, grid_dimensions, grid_particle_count,
                   particle_indices, grid_levels, Level, Children, Parent,
                   visit, max_level>>

\* _count_grids. A KeyError of the fallback leaves __init__ at once.
count_grids ==
    /\ pc = "count"
    /\ LET c == CountOf(file)
       IN  IF c.ok
           THEN /\ num_grids' = c.n
                /\ pc' = NextPhase(pc)
                /\ error' = error
           ELSE /\ num_grids' = num_grids
                /\ pc' = "failed"
                /\ error' = "KeyError"
    /\ UNCHANGED <<file, handle, grid_dimensions, grid_particle_count,
                   particle_indices, grid_levels, Level, Children, Parent,
                   visit, max_level>>

\* _parse_hierarchy. grid_dimensions comes as ones from the framework and is
\* multiplied by the block sizes; the grids are made with Parent = None and
\* Children = [] (FLASHGrid.__init__).
parse_hierarchy ==
    /\ pc = "parse"
    /\ LET bs == BlockSizes(file)
       IN  IF bs.ok
           THEN /\ grid_dimensions' =
                       [g \in 1..num_grids |->
                           [k \in 1..Len(ParamNames) |-> UnitDimension * bs.nb[k]]]
                /\ grid_particle_count' = file.localnp
                /\ particle_indices' = Accumulate(file.localnp)
                /\ grid_levels' =
                       [g \in 1..num_grids |-> NormalizeLevel(file.refine_level[g])]
                /\ Level' =
                       [g \in 1..num_grids |-> NormalizeLevel(file.refine_level[g])]
                /\ Children' = [g \in 1..num_grids |-> << >>]
                /\ Parent' = [g \in 1..num_grids |-> 0]
                /\ pc' = NextPhase(pc)
                /\ error' = error
           ELSE /\ pc' = "failed"
                /\ error' = "KeyError"
                /\ UNCHANGED <<grid_dimensions, grid_particle_count,
                               particle_indices, grid_levels, Level, Children,
                               Parent>>
    /\ UNCHANGED <<file, handle, num_grids, visit, max_level>>

\* _populate_grid_objects: the whole loop, then max_level.
populate_grid_objects ==
    /\ pc = "populate"
    /\ \E order \in ArgsortOrders(grid_levels) :
         LET r == PopulateLoop(file, order, 1,
                      [Children |-> Children, Parent |-> Parent,
                       seen |-> << >>, ok |-> TRUE])
         IN  /\ Children' = r.Children
             /\ Parent' = r.Parent
             /\ visit' = r.seen
             /\ IF r.ok
                THEN /\ max_level' = MaxOf(grid_levels, Len(grid_levels))
                     /\ pc' = NextPhase(pc)
                     /\ error' = error
                ELSE /\ max_level' = max_level
                     /\ pc' = "failed"
                     /\ error' = "IndexError"
    /\ UNCHANGED <<file, handle, num_grids, grid_dimensions,
                   grid_particle_count, particle_indices, grid_levels, Level>>

\* _detect_fields: reads "/unknown names" and "/particle names".
detect_fields ==
    /\ pc = "detect"
    /\ IF file.has_names
       THEN pc' = NextPhase(pc) /\ error' = error
       ELSE pc' = "failed" /\ error' = "KeyError"
    /\ UNCHANGED <<file, handle, num_grids, grid_dimensions,
                   grid_particle_count, particle_indices, grid_levels, Level,
                   Children, Parent, visit, max_level>>

\* FLASHHierarchy.__init__, lines 78-79: reached only when no phase raised.
Close ==
    /\ pc = "close"
    /\ handle' = "closed"
    /\ pc' = NextPhase(pc)
    /\ UNCHANGED <<file, error, num_grids, grid_dimensions, grid_particle_count,
                   particle_indices, grid_levels, Level, Children, Parent,
                   visit, max_level>>

Next ==
    \/ Open
    \/ count_grids
    \/ parse_hierarchy
    \/ populate_grid_objects
    \/ detect_fields
    \/ Close

Spec == Init /\ [][Next]_vars

SpecParse == InitParse /\ [][Next]_vars

\* ------------------------------------------------------- properties
\* __init__ has come past _parse_hierarchy / past _populate_grid_objects.
Parsed == pc \in {"populate", "detect", "close", "done"}

Built == pc \in {"detect", "close", "done"}

\* The child columns of the row of grid g in the file.
ChildColumns == (offset + 1)..(offset + NumChildSlots)

\* Every child slot of the file holds -1 or an id of 1..N.
CleanTable ==
    \A g \in 1..NGrids(file) : \A c \in ChildColumns :
        file.gid[g][c] = -1 \/ file.gid[g][c] \in 1..NGrids(file)

InChildren(g, p) == \E j \in 1..Len(Children[p]) : Children[p][j] = g

\* C1: after _populate_grid_objects on a table whose child slots hold only
\* -1 or ids of 1..N, every grid whose Parent is P is among P's Children.
C1_ParentInChildren ==
    (Built /\ CleanTable) =>
        \A g \in 1..num_grids : Parent[g] # 0 => InChildren(g, Parent[g])

C1_Witness ==
    /\ pc = "done"
    /\ CleanTable
    /\ \E g \in 1..num_grids : Parent[g] # 0 /\ Parent[g] # g

\* C2: after _populate_grid_objects, whenever A is in B's Children, A's
\* Parent is B (stated for the tables of valid ids only, where the same
\* child id may stand on two rows).
C2_ChildrenHaveParent ==
    (Built /\ CleanTable) =>
        \A b \in 1..num_grids : \A j \in 1..Len(Children[b]) :
            Parent[Children[b][j]] = b

\* The particles of the file, summed from the last grid down.
RECURSIVE TotalParticles(_)
TotalParticles(counts) ==
    IF counts = << >> THEN 0 ELSE Head(counts) + TotalParticles(Tail(counts))

\* C3: after _parse_hierarchy the particle-offset table has N + 1 entries,
\* starts at 0, rises by each grid's particle count, never falls, and ends at
\* the total particle count.
C3_ParticleOffsets ==
    Parsed =>
        /\ Len(particle_indices) = NGrids(file) + 1
        /\ particle_indices[1] = 0
        /\ \A i \in 1..NGrids(file) :
              /\ particle_indices[i + 1] - particle_indices[i] = file.localnp[i]
              /\ particle_indices[i] <= particle_indices[i + 1]
        /\ particle_indices[NGrids(file) + 1] = TotalParticles(file.localnp)

C3_Witness ==
    /\ pc = "done"
    /\ NGrids(file) = 2
    /\ file.localnp = <<2, 1>>
    /\ particle_indices = <<0, 2, 3>>

\* C4: every grid's level is its raw file level minus 1 and is >= 0, and
\* max_level is the largest of these levels.
C4_Levels ==
    /\ Parsed =>
          \A g \in 1..num_grids :
              /\ Level[g] = file.refine_level[g] - 1
              /\ grid_levels[g] = Level[g]
              /\ Level[g] >= 0
    /\ Built =>
          /\ \E g \in 1..num_grids : Level[g] = max_level
          /\ \A g \in 1..num_grids : Level[g] <= max_level

C4_Witness ==
    /\ pc = "done"
    /\ max_level = 1
    /\ \E g \in 1..num_grids : Level[g] = 0
    /\ file.refine_level[1] = 2

\* C5: when construction has ended, with every phase done or with an error
\* of a phase, the container handle is no longer open.
C5_HandleClosedOnExit == pc \in {"done", "failed"} => handle # "open"

\* Some child slot of the file holds an id above the grid count.
BadChildId ==
    \E g \in 1..NGrids(file) : \E c \in ChildColumns :
        file.gid[g][c] > NGrids(file)

\* C6: with a child slot above the grid count the build fails with the
\* index error of the lookup: it never gets past _populate_grid_objects, and
\* no grid's Parent or Children holds an id outside 1..N.
C6_BadChildIdFails ==
    BadChildId =>
        /\ ~Built
        /\ pc \notin {"new", "count", "parse", "populate"} =>
              pc = "failed" /\ error = "IndexError"
        /\ \A g \in 1..Len(Parent) :
              /\ Parent[g] \in 0..NGrids(file)
              /\ \A j \in 1..Len(Children[g]) : Children[g][j] \in 1..NGrids(file)

C6_Witness ==
    /\ BadChildId
    /\ pc = "failed"
    /\ error = "IndexError"
    /\ \E g \in 1..Len(Parent) : Parent[g] # 0

\* The child slots of the row of grid g that hold an id > 0, in row order.
IsPositive(i) == i > 0

PositiveSlots(g) == SelectSeq(SubSeq(file.gid[g], offset + 1, Len(file.gid[g])), IsPositive)

\* C7: a child slot <= 0 adds nothing to the row's Children, sets no Parent
\* and raises no error: Children is exactly the row's ids > 0.
C7_NonPositiveIgnored ==
    /\ Built => \A g \in 1..num_grids : Children[g] = PositiveSlots(g)
    /\ ~BadChildId => pc # "failed"

\* Whether the scalars table of the file has a row of this name, and its value.
HasScalar(name) ==
    \E r \in 1..Len(file.tables[<<"integer", TRUE>>]) :
        file.tables[<<"integer", TRUE>>][r].name = name

ScalarValue(name) ==
    LET rows == file.tables[<<"integer", TRUE>>]
    IN  rows[CHOOSE r \in 1..Len(rows) : rows[r].name = name].value

\* _parse_hierarchy has been left with an error.
ParseFailed == pc = "failed" /\ num_grids > 0 /\ grid_levels = << >>

\* C8 as claimed: each block size comes from its own lookup when that
\* succeeds and from the summary table only when that lookup fails.
C8_EachParamOwnFallback ==
    /\ Parsed =>
        \A g \in 1..num_grids : \A k \in 1..Len(ParamNames) :
            grid_dimensions[g][k] =
                IF HasScalar(ParamNames[k]) THEN ScalarValue(ParamNames[k])
                ELSE file.sim_params.block[k]
    /\ ParseFailed => ~file.sim_params.present

\* C8 as amended: the three block sizes come from the lookups only when all
\* three succeed; when any of them fails all three come from the summary
\* table, and the parse fails only when that table is missing too.
C8_AllOrNothingFallback ==
    LET all == \A k \in 1..Len(ParamNames) : HasScalar(ParamNames[k])
    IN  /\ Parsed =>
              \A g \in 1..num_grids : \A k \in 1..Len(ParamNames) :
                  grid_dimensions[g][k] =
                      IF all THEN ScalarValue(ParamNames[k])
                      ELSE file.sim_params.block[k]
        /\ Parsed => (all \/ file.sim_params.present)
        /\ ParseFailed => (~all /\ ~file.sim_params.present)

C8_Witness ==
    /\ pc = "done"
    /\ HasScalar("nxb")
    /\ ~HasScalar("nyb")
    /\ grid_dimensions[1][1] = file.sim_params.block[1]
    /\ grid_dimensions[1][1] # ScalarValue("nxb")

\* The grids reached from g by following Parent at most k times.
RECURSIVE Ancestors(_, _)
Ancestors(g, k) ==
    IF k = 0 \/ Parent[g] = 0 THEN {}
    ELSE {Parent[g]} \cup Ancestors(Parent[g], k - 1)

\* C9: no hierarchy that the build completes holds a grid that is its own
\* ancestor through Parent links (a cyclic table is rejected).
C9_NoCycle ==
    (Built /\ CleanTable) =>
        \A g \in 1..num_grids : g \notin Ancestors(g, num_grids)

\* The grids whose row lists c as a child.
Listers(c) ==
    {g \in 1..NGrids(file) : \E col \in ChildColumns : file.gid[g][col] = c}

\* g comes before h in ascending level order, ties by ascending id.
Before(g, h) ==
    \/ grid_levels[g] < grid_levels[h]
    \/ grid_levels[g] = grid_levels[h] /\ g < h

\* C10: the grids are visited in ascending level order, ties by ascending
\* id, so a child listed on several rows ends with the Parent that comes
\* last in (level, id) order.
C10_StableLevelOrder ==
    (Built /\ CleanTable) =>
        \A c \in 1..num_grids :
            IF Listers(c) = {} THEN Parent[c] = 0
            ELSE /\ Parent[c] \in Listers(c)
                 /\ \A g \in Listers(c) : g = Parent[c] \/ Before(g, Parent[c])

====
